---- MODULE Spec2Model ----
(***************************************************************************)
(* Model of bonnetn/electrical-circuit-simulator: the union-find over      *)
(* terminals (src/src/disjoint_set.rs) and the MNA formulator              *)
(* (src/src/simulator.rs).                                                 *)
(*                                                                         *)
(* Conventions of the model                                                *)
(*  - Rust indices are 0-based and are kept 0-based (ComponentID, node id, *)
(*    voltage generator id, idx); TLA+ sequences are 1-based, so element i *)
(*    of a Vec v is v[i + 1].                                              *)
(*  - f64 values are modelled as exact fractions <<num, den>> in lowest    *)
(*    terms with den > 0; den = 0 encodes the IEEE specials: <<1, 0>> is   *)
(*    +inf, <<-1, 0>> is -inf and <<0, 0>> is NaN.  Rounding is not        *)
(*    modelled.                                                            *)
(*  - usize values are kept as the two's-complement representative of      *)
(*    their residue: a negative representative r stands for 2^64 + r, so   *)
(*    -1 is usize::MAX.                                                    *)
(*  - HashMap iteration order is a nondeterministic choice: the order of   *)
(*    the node groups is any permutation; the order of the terminals in a  *)
(*    group only decides which of several panics comes first, so a group   *)
(*    is a set.                                                            *)
(***************************************************************************)
EXTENDS Integers, Sequences, FiniteSets, TLC

\* ------------------------------------------------------------------ bounds
MaxComponents == 2
MaxEdges == 3
MaxTopologyEdges == 3
MaxRawEdges == 2

\* ------------------------------------------------------------- model.rs
TerminalID(component_id, terminal_id) ==
    [component_id |-> component_id, idx |-> terminal_id]

Resistor(r) == [kind |-> "Resistor", value |-> r]

VoltageGenerator(v) == [kind |-> "VoltageGenerator", value |-> v]

Circuit(components, terminal_edges) ==
    [components |-> components, terminal_edges |-> terminal_edges]

\* ------------------------------------------------------- f64 as fractions
Abs(x) == IF x < 0 THEN -x ELSE x

Sign(x) == IF x < 0 THEN -1 ELSE IF x = 0 THEN 0 ELSE 1

RECURSIVE GCD(_, _)
GCD(a, b) == IF b = 0 THEN a ELSE GCD(b, a % b)

Norm(q) ==
    IF q[2] = 0 THEN <<Sign(q[1]), 0>>
    ELSE LET s == IF q[2] < 0 THEN -1 ELSE 1
             g == GCD(Abs(q[1]), Abs(q[2]))
         IN  <<(s * q[1]) \div g, (s * q[2]) \div g>>

F(x) == <<x, 1>>

NaN == <<0, 0>>

IsFinite(q) == q[2] # 0

FAdd(a, b) ==
    IF a[2] = 0 /\ b[2] = 0 THEN (IF a = b THEN a ELSE NaN)
    ELSE IF a[2] = 0 THEN a
    ELSE IF b[2] = 0 THEN b
    ELSE Norm(<<a[1] * b[2] + b[1] * a[2], a[2] * b[2]>>)

FNeg(a) == <<-a[1], a[2]>>

FSub(a, b) == FAdd(a, FNeg(b))

FMul(a, b) == Norm(<<a[1] * b[1], a[2] * b[2]>>)

FDiv(a, b) ==
    LET num == a[1] * b[2]
        den == a[2] * b[1]
    IN  IF den < 0 THEN Norm(<<-num, -den>>)
        ELSE IF den = 0 /\ b[1] < 0 THEN Norm(<<-num, 0>>)
        ELSE Norm(<<num, den>>)

\* DVector<f64> of dimension n: a sequence of n fractions.
Zeros(n) == [i \in 1..n |-> F(0)]

VAdd(u, v) == [i \in DOMAIN u |-> FAdd(u[i], v[i])]

\* A faulty variant of the vector subtraction: its operands are swapped.
VSubSwapped(u, v) == [i \in DOMAIN u |-> FSub(v[i], u[i])]

VSub(u, v) == [i \in DOMAIN u |-> FSub(u[i], v[i])]

\* A faulty variant of the vector negation: the sign is not inverted.
VNegForgotten(u) == u

VNeg(u) == [i \in DOMAIN u |-> FNeg(u[i])]

\* A faulty variant of the division by the resistance: a multiplication.
VMulScalar(u, r) == [i \in DOMAIN u |-> FMul(u[i], r)]

VDivScalar(u, r) == [i \in DOMAIN u |-> FDiv(u[i], r)]

\* ------------------------------------------------------- disjoint_set.rs
Range(s) == {s[i] : i \in DOMAIN s}

\* flat_map(|(left, right)| [*left, *right]) of Simulator::new
TerminalIds(terminal_edges) ==
    {terminal_edges[i][1] : i \in DOMAIN terminal_edges}
        \cup {terminal_edges[i][2] : i \in DOMAIN terminal_edges}

DSNew(terminal_ids) == [t \in terminal_ids |-> t]

\* The outcome of a find whose loop never ends.
Diverges == [component_id |-> -1, idx |-> -1]

\* The while loop of find, cut after `fuel` iterations: a walk of more than
\* |elements| steps is on a cycle, which the loop never leaves.
RECURSIVE FindFrom(_, _, _)
FindFrom(elems, id, fuel) ==
    IF elems[id] = id THEN id
    ELSE IF fuel = 0 THEN Diverges
    ELSE FindFrom(elems, elems[id], fuel - 1)

DSFind(elems, terminal_id) ==
    FindFrom(elems, terminal_id, Cardinality(DOMAIN elems))

\* Faulty variants of merge: one links the left argument itself instead of its
\* root, the other links the left root to the right argument instead of its
\* root.
DSMergeNoLeftFind(elems, left, right) ==
    [elems EXCEPT ![left] = DSFind(elems, right)]

DSMergeNoRightFind(elems, left, right) ==
    [elems EXCEPT ![DSFind(elems, left)] = right]

DSMerge(elems, left, right) ==
    LET l == DSFind(elems, left)
        r == DSFind(elems, right)
    IN  [elems EXCEPT ![l] = r]

\* The merge loop of Simulator::new over terminal_edges[from + 1 ..].
RECURSIVE MergeAll(_, _, _)
MergeAll(elems, terminal_edges, from) ==
    IF from >= Len(terminal_edges) THEN elems
    ELSE MergeAll(DSMerge(elems, terminal_edges[from + 1][1],
                                 terminal_edges[from + 1][2]),
                  terminal_edges, from + 1)

\* A faulty variant of into_terminal_groups: it groups by parent, not by root.
TerminalGroupsByParent(elems) ==
    {{t \in DOMAIN elems : elems[t] = parent} :
        parent \in {elems[t] : t \in DOMAIN elems}}

\* into_terminal_groups, before the groups are put in (hash) order.
TerminalGroups(elems) ==
    {{t \in DOMAIN elems : DSFind(elems, t) = root} :
        root \in {DSFind(elems, t) : t \in DOMAIN elems}}

\* Every order in which a HashMap can emit the groups.
Orderings(S) ==
    {s \in [1..Cardinality(S) -> S] :
        \A i, j \in 1..Cardinality(S) : s[i] = s[j] => i = j}

\* ----------------------------------------------------------- simulator.rs
\* The outcome of an operation that may panic.
Ok(v) == [panics |-> {}, val |-> v]

Panic(kind) == [panics |-> {kind}, val |-> <<>>]

\* vgenerators of Simulator::new: the ComponentIDs of the voltage generators,
\* in declaration order, from ComponentID c on.
RECURSIVE VgeneratorsFrom(_, _)
VgeneratorsFrom(components, c) ==
    IF c >= Len(components) THEN <<>>
    ELSE (IF components[c + 1].kind = "VoltageGenerator" THEN <<c>> ELSE <<>>)
             \o VgeneratorsFrom(components, c + 1)

\* terminal_id_to_node_id of Simulator::new; a later insert overwrites.
TerminalToNode(nodes) ==
    [t \in UNION Range(nodes) |->
        CHOOSE k \in 0..(Len(nodes) - 1) :
            /\ t \in nodes[k + 1]
            /\ \A k2 \in 0..(Len(nodes) - 1) : t \in nodes[k2 + 1] => k2 <= k]

ComponentIdToVgeneratorId(vgenerators) ==
    [c \in Range(vgenerators) |->
        CHOOSE g \in 0..(Len(vgenerators) - 1) : vgenerators[g + 1] = c]

\* nodes.len() - 1 + vgenerators.len() in wrapping usize arithmetic.
UnknownCount(nodes, vgenerators) == Len(nodes) - 1 + Len(vgenerators)

\* The struct that Simulator::new returns for a given order of the groups.
MakeSimulator(c, nodes) ==
    LET vgenerators == VgeneratorsFrom(c.components, 0)
    IN  [circuit |-> c,
         n |-> UnknownCount(nodes, vgenerators),
         component_id_to_vgenerator_id |-> ComponentIdToVgeneratorId(vgenerators),
         nodes |-> nodes,
         terminal_to_node |-> TerminalToNode(nodes),
         vgenerators |-> vgenerators]

\* The node groups Simulator::new gets from the union-find, unordered.
NodeGroups(c) ==
    TerminalGroups(MergeAll(DSNew(TerminalIds(c.terminal_edges)),
                            c.terminal_edges, 0))

UnknownNodeVoltage(s, node_id) ==
    IF node_id = 0 THEN Zeros(s.n)
    ELSE [Zeros(s.n) EXCEPT ![(node_id - 1) + 1] = F(1)]

UnknownVgeneratorIntensity(s, vgenerator_id) ==
    [Zeros(s.n) EXCEPT ![(Len(s.nodes) - 1 + vgenerator_id) + 1] = F(1)]

\* get_other_terminal, for an idx of 0 or 1 (any other idx panics, see
\* GetComponentIntensityVector).
GetOtherTerminal(terminal_id) ==
    IF terminal_id.idx = 0 THEN TerminalID(terminal_id.component_id, 1)
    ELSE TerminalID(terminal_id.component_id, 0)

HasNode(s, terminal_id) == terminal_id \in DOMAIN s.terminal_to_node

GetComponentIntensityVector(s, output_terminal_id) ==
    LET cid == output_terminal_id.component_id
    IN  IF cid >= Len(s.circuit.components) THEN Panic("index_out_of_bounds")
        ELSE IF output_terminal_id.idx \notin {0, 1}
        THEN Panic("invalid_terminal_index")
        ELSE
        LET component == s.circuit.components[cid + 1]
            input_terminal_id == GetOtherTerminal(output_terminal_id)
        IN  IF component.kind = "Resistor"
            THEN IF ~HasNode(s, output_terminal_id) \/ ~HasNode(s, input_terminal_id)
                 THEN Panic("missing_key")
                 ELSE LET node_output == s.terminal_to_node[output_terminal_id]
                          node_input == s.terminal_to_node[input_terminal_id]
                          v_output == UnknownNodeVoltage(s, node_output)
                          v_input == UnknownNodeVoltage(s, node_input)
                      IN  Ok(VDivScalar(VSub(v_output, v_input), F(component.value)))
            ELSE LET generator_id == s.component_id_to_vgenerator_id[cid]
                     intensity == UnknownVgeneratorIntensity(s, generator_id)
                 IN  IF output_terminal_id.idx = 1 THEN Ok(intensity)
                     ELSE Ok(VNeg(intensity))

\* result += intensity over the terminals of a node that do not panic.
RECURSIVE SumIntensity(_, _)
SumIntensity(s, terminals) ==
    IF terminals = {} THEN Zeros(s.n)
    ELSE LET t == CHOOSE x \in terminals : TRUE
         IN  VAdd(SumIntensity(s, terminals \ {t}),
                  GetComponentIntensityVector(s, t).val)

\* get_node_intensity: the row of a node, or the panics its terminals can
\* raise (which comes first depends on the order of the terminals).
GetNodeIntensity(s, node_id) ==
    LET terminals == s.nodes[node_id + 1]
        panics == UNION {GetComponentIntensityVector(s, t).panics : t \in terminals}
    IN  IF panics # {} THEN [panics |-> panics, val |-> <<>>]
        ELSE Ok(SumIntensity(s, terminals))

GetVgeneratorVoltage(s, vgenerator_id) ==
    LET component_id == s.vgenerators[vgenerator_id + 1]
        terminal_input == TerminalID(component_id, 0)
        terminal_output == TerminalID(component_id, 1)
    IN  IF ~HasNode(s, terminal_input) \/ ~HasNode(s, terminal_output)
        THEN Panic("missing_key")
        ELSE LET node_input == s.terminal_to_node[terminal_input]
                 node_output == s.terminal_to_node[terminal_output]
                 v_input == UnknownNodeVoltage(s, node_input)
                 v_output == UnknownNodeVoltage(s, node_output)
             IN  Ok(VSub(v_output, v_input))

\* The iterations of `for node_id in 1..self.nodes.len()` (none for 0 nodes).
KclRowCount(s) == IF Len(s.nodes) = 0 THEN 0 ELSE Len(s.nodes) - 1

\* The rows get_matrix pushes, in order: nodes 1.., then the generators.
MatrixRows(s) ==
    [r \in 1..(KclRowCount(s) + Len(s.vgenerators)) |->
        IF r <= KclRowCount(s) THEN GetNodeIntensity(s, r)
        ELSE GetVgeneratorVoltage(s, r - KclRowCount(s) - 1)]

\* get_matrix: the matrix as the sequence of its rows, or the panics of the
\* first row that panics.  Vec::with_capacity(n) panics on a wrapped n;
\* DMatrix::from_rows panics on an empty slice of rows.
GetMatrix(s) ==
    IF s.n < 0 THEN Panic("capacity_overflow")
    ELSE
    LET rows == MatrixRows(s)
        bad == {r \in DOMAIN rows : rows[r].panics # {}}
    IN  IF bad # {}
        THEN [panics |-> rows[CHOOSE r \in bad : \A r2 \in bad : r <= r2].panics,
              val |-> <<>>]
        ELSE IF Len(rows) = 0 THEN Panic("from_rows_empty")
        ELSE Ok([r \in DOMAIN rows |-> rows[r].val])

\* get_result_vector, for a simulator with at least one node.
RECURSIVE SetVoltages(_, _, _)
SetVoltages(s, result, vgenerator_id) ==
    IF vgenerator_id >= Len(s.vgenerators) THEN Ok(result)
    ELSE LET component == s.circuit.components[s.vgenerators[vgenerator_id + 1] + 1]
         IN  IF component.kind # "VoltageGenerator"
             THEN Panic("voltage_generator_expected")
             ELSE SetVoltages(s,
                    [result EXCEPT ![(Len(s.nodes) - 1 + vgenerator_id) + 1]
                                        = F(component.value)],
                    vgenerator_id + 1)

GetResultVector(s) == SetVoltages(s, Zeros(s.n), 0)

\* ----------------------------------------------- mat.lu().solve(&result)
\* a > b on f64: false as soon as one side is NaN.
FGt(a, b) ==
    IF a = NaN \/ b = NaN THEN FALSE
    ELSE IF a[2] = 0 /\ b[2] = 0 THEN a[1] > b[1]
    ELSE IF a[2] = 0 THEN a[1] > 0
    ELSE IF b[2] = 0 THEN b[1] < 0
    ELSE a[1] * b[2] > b[1] * a[2]

FAbs(a) == <<Abs(a[1]), a[2]>>

\* icamax on rows j.. of column col: the first row whose absolute value is
\* greater than those before it, the_i being the best row so far.
RECURSIVE IcamaxFrom(_, _, _, _)
IcamaxFrom(m, col, j, the_i) ==
    IF j > Len(m) THEN the_i
    ELSE IcamaxFrom(m, col, j + 1,
                    IF FGt(FAbs(m[j][col]), FAbs(m[the_i][col]))
                    THEN j ELSE the_i)

SwapRows(m, i, piv) ==
    [j \in DOMAIN m |-> IF j = i THEN m[piv] ELSE IF j = piv THEN m[i] ELSE m[j]]

\* One step of elimination on column i, whose pivot m[i][i] is not zero: the
\* rows below keep their coefficient m[j][i] * (1 / pivot) in column i and
\* lose that multiple of row i in the columns after it.
GaussStep(m, i) ==
    LET inv_diag == FDiv(F(1), m[i][i])
    IN  [j \in DOMAIN m |->
            IF j <= i THEN m[j]
            ELSE LET coeff == FMul(m[j][i], inv_diag)
                 IN  [k \in DOMAIN m[j] |->
                        IF k < i THEN m[j][k]
                        ELSE IF k = i THEN coeff
                        ELSE FAdd(FMul(FNeg(m[i][k]), coeff), m[j][k])]]

\* LU::new from column i on (1-based), p being the row exchanges made so far:
\* partial pivoting, a column without a nonzero pivot is skipped.
RECURSIVE LuFrom(_, _, _)
LuFrom(m, p, i) ==
    IF i > Len(m) THEN [lu |-> m, p |-> p]
    ELSE LET piv == IcamaxFrom(m, i, i + 1, i)
         IN  IF m[piv][i] = F(0) THEN LuFrom(m, p, i + 1)
             ELSE IF piv # i
                  THEN LuFrom(GaussStep(SwapRows(m, i, piv), i),
                              Append(p, <<i, piv>>), i + 1)
                  ELSE LuFrom(GaussStep(m, i), p, i + 1)

\* PermutationSequence::permute_rows: the exchanges from exchange k on.
RECURSIVE PermuteRows(_, _, _)
PermuteRows(b, p, k) ==
    IF k > Len(p) THEN b
    ELSE PermuteRows([j \in DOMAIN b |->
                        IF j = p[k][1] THEN b[p[k][2]]
                        ELSE IF j = p[k][2] THEN b[p[k][1]]
                        ELSE b[j]],
                     p, k + 1)

\* solve_lower_triangular_with_diag_mut(b, 1) from column i on.
RECURSIVE SolveLowerFrom(_, _, _)
SolveLowerFrom(lu, b, i) ==
    IF i > Len(lu) - 1 THEN b
    ELSE LET coeff == FDiv(b[i], F(1))
         IN  SolveLowerFrom(lu,
                [j \in DOMAIN b |->
                    IF j > i THEN FAdd(FMul(FNeg(coeff), lu[j][i]), b[j])
                    ELSE b[j]],
                i + 1)

\* solve_upper_triangular_mut from column i down: None on a zero diagonal.
RECURSIVE SolveUpperFrom(_, _, _)
SolveUpperFrom(lu, b, i) ==
    IF i < 1 THEN Ok(b)
    ELSE IF lu[i][i] = F(0) THEN Panic("unwrap_none")
    ELSE LET coeff == FDiv(b[i], lu[i][i])
         IN  SolveUpperFrom(lu,
                [j \in DOMAIN b |->
                    IF j = i THEN coeff
                    ELSE IF j < i THEN FAdd(FMul(FNeg(coeff), lu[j][i]), b[j])
                    ELSE b[j]],
                i - 1)

\* mat.lu().solve(&result).unwrap(): the solution, or a panic on None.
LuSolveUnwrap(m, y) ==
    LET f == LuFrom(m, <<>>, 1)
    IN  SolveUpperFrom(f.lu, SolveLowerFrom(f.lu, PermuteRows(y, f.p, 1), 1),
                       Len(m))

\* ---------------------------------------------- the decoding loop of simulate
NodeVoltage(x, node) == IF node >= 1 THEN x[(node - 1) + 1] ELSE F(0)

\* A faulty variant of the decoding of a component: v_input - v_output.
ComponentVoltageSwapped(s, x, component_id) ==
    LET input_terminal_id == TerminalID(component_id, 0)
        output_terminal_id == TerminalID(component_id, 1)
    IN  IF ~(input_terminal_id \in DOMAIN s.terminal_to_node)
           \/ ~(output_terminal_id \in DOMAIN s.terminal_to_node)
        THEN [panics |-> {"missing_key"}, val |-> <<>>]
        ELSE LET node_input == s.terminal_to_node[input_terminal_id]
                 node_output == s.terminal_to_node[output_terminal_id]
             IN  [panics |-> {},
                  val |-> FSub(NodeVoltage(x, node_input),
                               NodeVoltage(x, node_output))]

\* The voltage simulate prints for a component.
ComponentVoltage(s, x, component_id) ==
    LET input_terminal_id == TerminalID(component_id, 0)
        output_terminal_id == TerminalID(component_id, 1)
    IN  IF ~HasNode(s, input_terminal_id) \/ ~HasNode(s, output_terminal_id)
        THEN Panic("missing_key")
        ELSE LET node_input == s.terminal_to_node[input_terminal_id]
                 node_output == s.terminal_to_node[output_terminal_id]
                 v_input == NodeVoltage(x, node_input)
                 v_output == NodeVoltage(x, node_output)
             IN  Ok(FSub(v_output, v_input))

\* The decoding loop: the voltages printed, in declaration order, up to the
\* first component whose terminal has no node.
Decode(s, x) ==
    LET per == [c \in 1..Len(s.circuit.components) |-> ComponentVoltage(s, x, c - 1)]
        bad == {c \in DOMAIN per : per[c].panics # {}}
        stop == IF bad = {} THEN Len(per) + 1
                ELSE CHOOSE c \in bad : \A c2 \in bad : c <= c2
    IN  [panics |-> IF bad = {} THEN {} ELSE {"missing_key"},
         val |-> [c \in 1..(stop - 1) |-> per[c].val]]

\* ------------------------------------------------------------ the inputs
\* Every component has a value of its own, so that a value read from the wrong
\* component shows: at ComponentID c a resistor of 2 + 8c ohms or a generator
\* of 5 + 2c volts (S1 is V0 = 5 and R1 = 10).
ResistanceAt(c) == 2 + 8 * c

VoltageAt(c) == 5 + 2 * c

\* The lists of k components: a resistor or a generator at each ComponentID.
ComponentLists(k) ==
    {[i \in 1..k |-> IF i \in generators
                     THEN VoltageGenerator(VoltageAt(i - 1))
                     ELSE Resistor(ResistanceAt(i - 1))] :
        generators \in SUBSET (1..k)}

Voltages == {5}

RawResistances == {-10, 0, 10}

RawComponents == {Resistor(r) : r \in RawResistances}
                    \cup {VoltageGenerator(v) : v \in Voltages}

\* The terminals of the first k components.
Terminals(k) == {TerminalID(c, i) : c \in 0..(k - 1), i \in {0, 1}}

\* Terminals as the types allow them: any ComponentID, any idx.
RawTerminals(k) == {TerminalID(c, i) : c \in 0..(k - 1), i \in 0..2}

SeqsUpTo(S, k) == UNION {[1..m -> S] : m \in 0..k}

\* Scenario S1: V0 = 5, R1 = 10, edges (V0.1, R1.0) and (R1.1, V0.0).
S1 ==
    Circuit(<<VoltageGenerator(5), Resistor(10)>>,
            <<<<TerminalID(0, 1), TerminalID(1, 0)>>,
              <<TerminalID(1, 1), TerminalID(0, 0)>>>>)

\* The place of a terminal in the declaration order of the terminals.
TerminalRank(t) == 2 * t.component_id + t.idx

EdgeBefore(e, f) ==
    \/ TerminalRank(e[1]) < TerminalRank(f[1])
    \/ e[1] = f[1] /\ TerminalRank(e[2]) < TerminalRank(f[2])

\* Wirings of the first k components: every edge (a, b), a = b allowed, listed
\* once, from its lower terminal, the edges in increasing order.
Wirings(k, max_edges) ==
    LET edges == {e \in Terminals(k) \X Terminals(k) :
                     TerminalRank(e[1]) <= TerminalRank(e[2])}
    IN  {es \in SeqsUpTo(edges, max_edges) :
            \A i \in 1..(Len(es) - 1) : EdgeBefore(es[i], es[i + 1])}

\* ------------------------------------------------------ the state machine
VARIABLES
    circuit,     \* the Circuit handed to Simulator::new
    pc,          \* where main is: new, merge, built, matrix, vector, solved,
                 \* done, or panicked
    elements,    \* DisjointSet.elements
    merged,      \* the edges merged so far by the loop of Simulator::new
    sim,         \* the Simulator, once built
    mat,         \* simulate's mat
    result,      \* simulate's result
    unknowns,    \* simulate's unknowns
    readings,    \* the component voltages printed so far
    failure      \* the panic that ended the run, or "none"

vars == <<circuit, pc, elements, merged, sim, mat, result, unknowns, readings,
          failure>>

InitWith(c) ==
    /\ circuit = c
    /\ pc = "new"
    /\ elements = <<>>
    /\ merged = 0
    /\ sim = MakeSimulator(Circuit(<<>>, <<>>), <<>>)
    /\ mat = <<>>
    /\ result = <<>>
    /\ unknowns = <<>>
    /\ readings = <<>>
    /\ failure = "none"

\* Circuits as the data model describes them: positive resistances, edges
\* between terminals 0 and 1 of declared components; and scenario S1 as the
\* specification writes it.
Init ==
    \/ InitWith(S1)
    \/ \E k \in 0..MaxComponents :
          \E es \in Wirings(k, MaxEdges) :
             \E cs \in ComponentLists(k) : InitWith(Circuit(cs, es))

\* The components of S1 with their terminals joined by any list of edges: in
\* any order, with repetitions and with edges (a, a).
InitTopology ==
    \E es \in SeqsUpTo(Terminals(Len(S1.components))
                           \X Terminals(Len(S1.components)),
                       MaxTopologyEdges) :
        InitWith(Circuit(S1.components, es))

\* Circuits as the types allow them: any resistance, any idx, any ComponentID.
InitRaw ==
    \E es \in SeqsUpTo(RawTerminals(MaxComponents) \X RawTerminals(MaxComponents),
                       MaxRawEdges) :
        \E cs \in SeqsUpTo(RawComponents, MaxComponents) :
            InitWith(Circuit(cs, es))

PanicWith(kind) ==
    /\ pc' = "panicked"
    /\ failure' = kind

\* Simulator::new, up to DisjointSet::new(terminal_ids).
NewDisjointSet ==
    /\ pc = "new"
    /\ elements' = DSNew(TerminalIds(circuit.terminal_edges))
    /\ merged' = 0
    /\ pc' = "merge"
    /\ UNCHANGED <<circuit, sim, mat, result, unknowns, readings, failure>>

\* One iteration of the merge loop of Simulator::new.
Merge ==
    /\ pc = "merge"
    /\ merged < Len(circuit.terminal_edges)
    /\ LET left == circuit.terminal_edges[merged + 1][1]
           right == circuit.terminal_edges[merged + 1][2]
       IN  IF Diverges \in {DSFind(elements, left), DSFind(elements, right)}
           THEN /\ pc' = "hung"
                /\ UNCHANGED <<elements, merged>>
           ELSE /\ elements' = DSMerge(elements, left, right)
                /\ merged' = merged + 1
                /\ pc' = pc
    /\ UNCHANGED <<circuit, sim, mat, result, unknowns, readings, failure>>

\* The rest of Simulator::new: into_terminal_groups, the index maps and n.
\* With no node, nodes.len() - 1 panics where overflow checks are on and
\* wraps where they are off.
FinishNew ==
    /\ pc = "merge"
    /\ merged = Len(circuit.terminal_edges)
    /\ IF \E t \in DOMAIN elements : DSFind(elements, t) = Diverges
       THEN /\ pc' = "hung"
            /\ UNCHANGED <<sim, failure>>
       ELSE \E nodes \in Orderings(TerminalGroups(elements)) :
              \/ /\ Len(nodes) = 0
                 /\ PanicWith("subtract_overflow")
                 /\ UNCHANGED sim
              \/ /\ sim' = MakeSimulator(circuit, nodes)
                 /\ pc' = "built"
                 /\ UNCHANGED failure
    /\ UNCHANGED <<circuit, elements, merged, mat, result, unknowns, readings>>

\* simulate: let mat = self.get_matrix();
SimulateGetMatrix ==
    /\ pc = "built"
    /\ LET m == GetMatrix(sim)
       IN  IF m.panics # {}
           THEN /\ \E kind \in m.panics : PanicWith(kind)
                /\ UNCHANGED mat
           ELSE /\ mat' = m.val
                /\ pc' = "matrix"
                /\ UNCHANGED failure
    /\ UNCHANGED <<circuit, elements, merged, sim, result, unknowns, readings>>

\* simulate: let result = self.get_result_vector();
SimulateGetResultVector ==
    /\ pc = "matrix"
    /\ LET y == GetResultVector(sim)
       IN  IF y.panics # {}
           THEN /\ \E kind \in y.panics : PanicWith(kind)
                /\ UNCHANGED result
           ELSE /\ result' = y.val
                /\ pc' = "vector"
                /\ UNCHANGED failure
    /\ UNCHANGED <<circuit, elements, merged, sim, mat, unknowns, readings>>

\* simulate: let unknowns = mat.lu().solve(&result).unwrap();
SimulateSolve ==
    /\ pc = "vector"
    /\ LET x == LuSolveUnwrap(mat, result)
       IN IF x.panics # {}
          THEN /\ \E kind \in x.panics : PanicWith(kind)
               /\ UNCHANGED unknowns
          ELSE /\ unknowns' = x.val
               /\ pc' = "solved"
               /\ UNCHANGED failure
    /\ UNCHANGED <<circuit, elements, merged, sim, mat, result, readings>>

\* simulate: the loop over the components that prints their voltages.
SimulateDecode ==
    /\ pc = "solved"
    /\ LET d == Decode(sim, unknowns)
       IN  /\ readings' = d.val
           /\ IF d.panics # {}
              THEN \E kind \in d.panics : PanicWith(kind)
              ELSE /\ pc' = "done"
                   /\ UNCHANGED failure
    /\ UNCHANGED <<circuit, elements, merged, sim, mat, result, unknowns>>

Next ==
    \/ NewDisjointSet
    \/ Merge
    \/ FinishNew
    \/ SimulateGetMatrix
    \/ SimulateGetResultVector
    \/ SimulateSolve
    \/ SimulateDecode

Spec == Init /\ [][Next]_vars

SpecTopology == InitTopology /\ [][Next]_vars

SpecRaw == InitRaw /\ [][Next]_vars

\* ------------------------------------------------------------- the claims
\* Simulator::new has returned a simulator.
Built ==
    \/ pc \in {"built", "matrix", "vector", "solved", "done"}
    \/ pc = "panicked" /\ failure # "subtract_overflow"

HasMat == mat # <<>>

HasResult == result # <<>>

\* The terminals joined to those of S by the edges, in either direction, in
\* any number of steps.
RECURSIVE Reach(_, _)
Reach(S, terminal_edges) ==
    LET es == Range(terminal_edges)
        more == S \cup {e[2] : e \in {x \in es : x[1] \in S}}
                  \cup {e[1] : e \in {x \in es : x[2] \in S}}
    IN  IF more = S THEN S ELSE Reach(more, terminal_edges)

\* C1: once Simulator::new has returned, the node groups are a partition of
\* the terminals that appear in an edge (every such terminal is in exactly
\* one group, no group is empty), and two terminals have the same node id in
\* terminal_to_node if and only if the reflexive-symmetric-transitive closure
\* of the edge relation relates them.
C1_TopologyReduction ==
    Built =>
        LET ts == TerminalIds(circuit.terminal_edges)
            ttn == sim.terminal_to_node
        IN  /\ DOMAIN ttn = ts
            /\ UNION Range(sim.nodes) = ts
            /\ \A k \in DOMAIN sim.nodes : sim.nodes[k] # {}
            /\ \A t \in ts :
                  Cardinality({k \in DOMAIN sim.nodes : t \in sim.nodes[k]}) = 1
            /\ \A a, b \in ts :
                  (ttn[a] = ttn[b]) <=> (b \in Reach({a}, circuit.terminal_edges))

\* C1 witness: three edges, one of them (a, a), were merged into one group of
\* three terminals and a second group.
C1_Witness ==
    /\ pc = "built"
    /\ Len(circuit.terminal_edges) = 3
    /\ \E i \in 1..3 : circuit.terminal_edges[i][1] = circuit.terminal_edges[i][2]
    /\ Len(sim.nodes) = 2
    /\ \E k \in 1..2 : Cardinality(sim.nodes[k]) = 3

\* The last edge of the circuit repeats an earlier edge, in either orientation.
LastEdgeIsDuplicate ==
    LET es == circuit.terminal_edges
    IN  /\ Len(es) >= 2
        /\ \E i \in 1..(Len(es) - 1) :
              \/ es[i] = es[Len(es)]
              \/ es[i] = <<es[Len(es)][2], es[Len(es)][1]>>

\* The circuit before its last edge was appended.
WithoutLastEdge ==
    Circuit(circuit.components,
            SubSeq(circuit.terminal_edges, 1, Len(circuit.terminal_edges) - 1))

\* C9: when the last edge of the circuit is a second copy of an earlier edge
\* (in either orientation), the partition of the terminals into nodes is the
\* one of the circuit without that copy, and with the same numbering of the
\* nodes n, M and Y are those of the circuit without the copy.
C9_DuplicateEdge ==
    (Built /\ LastEdgeIsDuplicate) =>
        LET before == MakeSimulator(WithoutLastEdge, sim.nodes)
        IN  /\ NodeGroups(WithoutLastEdge) = Range(sim.nodes)
            /\ before.n = sim.n
            /\ before.terminal_to_node = sim.terminal_to_node
            /\ GetMatrix(before) = GetMatrix(sim)
            /\ GetResultVector(before) = GetResultVector(sim)

\* C9 witness: a circuit whose third edge is the first one reversed was built
\* into two nodes and its matrix and vector were assembled.
C9_Witness ==
    /\ pc = "vector"
    /\ Len(circuit.terminal_edges) = 3
    /\ circuit.terminal_edges[3] =
          <<circuit.terminal_edges[1][2], circuit.terminal_edges[1][1]>>
    /\ circuit.terminal_edges[1][1] # circuit.terminal_edges[1][2]
    /\ Len(sim.nodes) = 2

\* The parent map is a forest: the walk of find from any terminal ends, at a
\* terminal that is its own parent.
Forest(elems) ==
    \A t \in DOMAIN elems :
        /\ DSFind(elems, t) # Diverges
        /\ DSFind(elems, t) \in DOMAIN elems
        /\ elems[DSFind(elems, t)] = DSFind(elems, t)

\* A merge left every parent as it was, except at most that of the root of
\* its left argument.
MergeChangesOnlyLeftRoot ==
    (pc = "merge" /\ merged' = merged + 1) =>
        LET left == circuit.terminal_edges[merged + 1][1]
        IN  /\ DOMAIN elements' = DOMAIN elements
            /\ \A t \in DOMAIN elements :
                  t # DSFind(elements, left) => elements'[t] = elements[t]

\* C10: after DisjointSet::new and any merges the parent map is a forest whose
\* only cycles are the self-loops of roots, so no find runs forever, and each
\* merge changes the parent of at most one terminal, the root of its left
\* argument.
C10_ForestAndFrame ==
    /\ [](pc # "hung" /\ Forest(elements))
    /\ [][MergeChangesOnlyLeftRoot]_vars

\* C10 witness: three merges were done, the first of them merge(a, a) and the
\* last of two distinct terminals that already shared a root.
C10_Witness ==
    /\ pc = "merge"
    /\ merged = 3
    /\ circuit.terminal_edges[1][1] = circuit.terminal_edges[1][2]
    /\ circuit.terminal_edges[3] = circuit.terminal_edges[2]
    /\ circuit.terminal_edges[2][1] # circuit.terminal_edges[2][2]
    /\ Forest(elements)

\* C2 (as claimed): Simulator::new never underflows, n is the non-negative
\* count (|nodes| - 1) + |voltage generators|, the matrix has n rows of n
\* columns and the result vector has length n.
C2_UnknownCount ==
    /\ failure # "subtract_overflow"
    /\ Built =>
          /\ Len(sim.nodes) >= 1
          /\ sim.n >= 0
          /\ sim.n = (Len(sim.nodes) - 1) + Len(sim.vgenerators)
    /\ HasMat =>
          /\ Len(mat) = sim.n
          /\ \A r \in DOMAIN mat : Len(mat[r]) = sim.n
    /\ HasResult => Len(result) = sim.n

\* The fraction s / r, for s of +1 or -1 and a positive r.
Conductance(s, r) == Norm(<<s, r>>)

\* The vector with coef added on the column of node k and subtracted on the
\* column of node m, the column of ground (node 0) skipped.
Stamp(n, k, m, coef) ==
    [i \in 1..n |->
        FAdd(IF k # 0 /\ i = k THEN coef ELSE F(0),
             IF m # 0 /\ i = m THEN FNeg(coef) ELSE F(0))]

\* The resistor terminals of the non-ground nodes whose other terminal has a
\* node, once the matrix is assembled.
ResistorTerminals ==
    {t \in UNION {sim.nodes[k + 1] : k \in 1..(Len(sim.nodes) - 1)} :
        /\ sim.circuit.components[t.component_id + 1].kind = "Resistor"
        /\ HasNode(sim, GetOtherTerminal(t))}

\* What terminal t adds to the row of its node: sign / R on the column of its
\* node, -sign / R on the column of the node of the other terminal.
ResistorStamp(t, sign) ==
    Stamp(sim.n, sim.terminal_to_node[t],
          sim.terminal_to_node[GetOtherTerminal(t)],
          Conductance(sign, sim.circuit.components[t.component_id + 1].value))

\* C3 (as claimed): the contribution of a resistor terminal t of node k is
\* +1/R on V_k and -1/R on V_m when t is terminal 1, and -1/R on V_k and +1/R
\* on V_m when t is terminal 0.
C3_StampBySide ==
    HasMat =>
        \A t \in ResistorTerminals :
            GetComponentIntensityVector(sim, t).val =
                ResistorStamp(t, IF t.idx = 1 THEN 1 ELSE -1)

\* C3 (amended): the contribution of a resistor terminal t of node k is +1/R on
\* V_k and -1/R on V_m, whichever terminal t is.
C3_StampBothSides ==
    HasMat =>
        \A t \in ResistorTerminals :
            GetComponentIntensityVector(sim, t).val = ResistorStamp(t, 1)

\* C3 witness: the matrix is assembled for a circuit in which terminal 0 of a
\* resistor is at a non-ground node and its terminal 1 at another non-ground
\* node.
C3_Witness ==
    /\ pc = "matrix"
    /\ \E t \in ResistorTerminals :
          /\ t.idx = 0
          /\ sim.terminal_to_node[GetOtherTerminal(t)] # 0
          /\ sim.terminal_to_node[GetOtherTerminal(t)] # sim.terminal_to_node[t]

\* The row V_q - V_p of a generator between node p (terminal 0) and node q
\* (terminal 1).
SourceRow(n, p, q) ==
    [i \in 1..n |->
        F((IF q # 0 /\ i = q THEN 1 ELSE 0) - (IF p # 0 /\ i = p THEN 1 ELSE 0))]

\* C4: once M and Y are assembled, row |nodes|-1+j of M is +1 on V_q, -1 on
\* V_p and zero elsewhere for generator j between node p (terminal 0) and node
\* q (terminal 1), entry |nodes|-1+j of Y is its voltage, and the first
\* |nodes|-1 entries of Y are zero.
C4_SourceRow ==
    (HasMat /\ HasResult) =>
        /\ \A j \in 0..(Len(sim.vgenerators) - 1) :
              LET c == sim.vgenerators[j + 1]
                  p == sim.terminal_to_node[TerminalID(c, 0)]
                  q == sim.terminal_to_node[TerminalID(c, 1)]
                  row == (Len(sim.nodes) - 1 + j) + 1
              IN  /\ sim.circuit.components[c + 1].kind = "VoltageGenerator"
                  /\ \A c2 \in 0..(c - 1) :
                        sim.circuit.components[c2 + 1].kind = "VoltageGenerator"
                            => \E j2 \in 0..(j - 1) : sim.vgenerators[j2 + 1] = c2
                  /\ mat[row] = SourceRow(sim.n, p, q)
                  /\ result[row] = F(sim.circuit.components[c + 1].value)
        /\ \A i \in 1..(Len(sim.nodes) - 1) : result[i] = F(0)

\* C4 witness: M and Y are assembled for a circuit with a generator between
\* two different non-ground nodes.
C4_Witness ==
    /\ pc = "vector"
    /\ \E j \in 0..(Len(sim.vgenerators) - 1) :
          LET c == sim.vgenerators[j + 1]
              p == sim.terminal_to_node[TerminalID(c, 0)]
              q == sim.terminal_to_node[TerminalID(c, 1)]
          IN  p # 0 /\ q # 0 /\ p # q

\* What section 3 and section 7 of the specification ask of a circuit:
\* positive resistances, edge terminals of index 0 or 1 on declared components.
ValidCircuit(c) ==
    /\ \A i \in DOMAIN c.components :
          c.components[i].kind = "Resistor" => c.components[i].value > 0
    /\ \A t \in TerminalIds(c.terminal_edges) :
          /\ t.idx \in {0, 1}
          /\ t.component_id < Len(c.components)

\* C5 (as claimed): Simulator::new returns a simulator only for a circuit with
\* positive resistances and edge terminals of index 0 or 1 on declared
\* components, and once it has returned one the only failure of simulate is a
\* singular system.
C5_ValidationInConstructor ==
    Built =>
        /\ ValidCircuit(circuit)
        /\ failure \in {"none", "unwrap_none"}

\* C6 (as claimed): once Simulator::new has returned, both terminals of every
\* declared component have a node id, a terminal that is in no edge is alone
\* in its node, and no lookup of a node id fails.
C6_IsolatedTerminals ==
    Built =>
        /\ \A c \in 0..(Len(circuit.components) - 1) : \A i \in {0, 1} :
              /\ HasNode(sim, TerminalID(c, i))
              /\ TerminalID(c, i) \notin TerminalIds(circuit.terminal_edges)
                    => sim.nodes[sim.terminal_to_node[TerminalID(c, i)] + 1]
                           = {TerminalID(c, i)}
        /\ failure # "missing_key"

\* The determinant of a matrix of finite entries, for the claims about the
\* system that is assembled.
RemoveAt(m, p) ==
    [i \in 1..(Len(m) - 1) |-> IF i < p THEN m[i] ELSE m[i + 1]]

\* The rows of m other than row p, each reduced by the multiple of row p that
\* clears its first column, and with that first column dropped.
Eliminate(m, p) ==
    LET rest == RemoveAt(m, p)
    IN  [i \in 1..(Len(m) - 1) |->
            [k \in 1..(Len(m) - 1) |->
                FSub(rest[i][k + 1],
                     FMul(FDiv(rest[i][1], m[p][1]), m[p][k + 1]))]]

\* The determinant by elimination on the first column with row pivoting:
\* bringing row p to the top costs p - 1 exchanges of rows.
RECURSIVE Det(_)
Det(m) ==
    IF Len(m) = 0 THEN F(1)
    ELSE LET pivots == {i \in DOMAIN m : m[i][1] # F(0)}
         IN  IF pivots = {} THEN F(0)
             ELSE LET p == CHOOSE i \in pivots : \A k \in pivots : i <= k
                      d == FMul(m[p][1], Det(Eliminate(m, p)))
                  IN  IF p % 2 = 1 THEN d ELSE FNeg(d)

RECURSIVE DotFrom(_, _, _)
DotFrom(row, x, k) ==
    IF k > Len(row) THEN F(0)
    ELSE FAdd(FMul(row[k], x[k]), DotFrom(row, x, k + 1))

\* The product M * X.
MatVec(m, x) == [i \in DOMAIN m |-> DotFrom(m[i], x, 1)]

\* C7: for S1, whichever node is ground, the run does not panic, the assembled
\* system has exactly one solution, that solution has I_g0 = -1/2 (so
\* 10 * I_g0 = -5), and it is the X that simulate gets from the solver.
C7_S1SourceCurrent ==
    circuit = S1 =>
        /\ failure = "none"
        /\ (HasMat /\ HasResult) =>
              /\ Det(mat) # F(0)
              /\ \E v \in {F(5), F(-5)} : MatVec(mat, <<v, <<-1, 2>>>>) = result
        /\ pc \in {"solved", "done"} =>
              /\ MatVec(mat, unknowns) = result
              /\ unknowns[(Len(sim.nodes) - 1 + 0) + 1] = <<-1, 2>>
              /\ FMul(F(10), unknowns[(Len(sim.nodes) - 1 + 0) + 1]) = F(-5)

\* C7 witness: S1 is solved with the node of V0.1 and R1.0 as ground.
C7_Witness ==
    /\ circuit = S1
    /\ pc = "solved"
    /\ sim.terminal_to_node[TerminalID(0, 1)] = 0

\* C8 (as claimed): for S1 simulate reports 5 for R1 and 5 for V0.
C8_S1ReadsPlusFive ==
    (circuit = S1 /\ pc = "done") => readings = <<F(5), F(5)>>

\* C8 (amended): for S1, whichever node is ground, simulate reports -5 for R1
\* (the voltage of the node of R1.1 minus that of the node of R1.0) and 5 for
\* V0.
C8_S1Readings ==
    circuit = S1 =>
        /\ failure = "none"
        /\ pc = "done" => readings = <<F(5), F(-5)>>

\* C8 witness: S1 is decoded with the node of V0.0 and R1.1 as ground.
C8_Witness ==
    /\ circuit = S1
    /\ pc = "done"
    /\ sim.terminal_to_node[TerminalID(0, 0)] = 0
    /\ Len(readings) = 2

====
